---- MODULE Spec2Model ----
(***************************************************************************)
(* Session authority (auth.store.ts) and permission queries (use-auth.ts)  *)
(* of the access-control web client.                                       *)
(*                                                                         *)
(* The store's four fields are the record `session`; the keys that the     *)
(* auth-storage utilities keep in localStorage are the record `storage`;   *)
(* the 'auth:token-expired' listeners of window are the set `listeners`.   *)
(* login() is a process with two suspension points (the POST and the GET), *)
(* every other operation runs to completion in one step.                   *)
(***************************************************************************)
EXTENDS Integers, FiniteSets, Sequences, Bags, TLC

(* ---------------- bounds ---------------- *)
\* number of login() calls that may overlap
MaxLogins == 2
\* number of initialize() calls in one run (each creates one closure)
MaxInit == 2
\* length of the longest grant list of a user in the permission queries
MaxGrants == 2

(* ---------------- values ---------------- *)
\* JS null for a token (string | null)
NoToken == "null"
\* JS null for a user (AuthUser | null)
NoUser == [absent |-> TRUE]
\* a localStorage entry that JSON.parse cannot read
Corrupt == [corrupt |-> TRUE]

\* access tokens the backend issues
Tokens == {"t1", "t2"}
\* arguments of the setToken action: null, the empty string and real tokens
TokenArgs == {NoToken, ""} \cup Tokens

ModuleKeys == {"ACCESS_GROUP", "X", "OTHER_MODULE"}
Operations == {"CREATE", "READ", "SELECT", "UPDATE", "DELETE"}
\* the optional parameter `operation?` left out
NoOperation == "undefined"

Tenant == [id |-> "tn1", name |-> "Tenant", slug |-> "tenant", customDomain |-> "null"]

\* profiles the backend returns from the current-user endpoint (UserInfo)
UserInfos ==
  { [id |-> "u1", username |-> "ana", email |-> "ana@x", fullName |-> "Ana",
     accessGroups |-> <<"g1">>, roles |-> <<"admin">>,
     permissions |-> << <<"X", "READ">> >>, tenant |-> Tenant],
    [id |-> "u2", username |-> "bob", email |-> "bob@x", fullName |-> "Bob",
     accessGroups |-> <<>>, roles |-> <<>>,
     permissions |-> << <<"ACCESS_GROUP", "CREATE">>, <<"ACCESS_GROUP", "CREATE">> >>,
     tenant |-> Tenant] }

VARIABLES
  session,    \* the store: isAuthenticated, user, token, isLoading
  storage,    \* localStorage keys of auth-storage: token, refresh, user, expired
  listeners,  \* closures registered for 'auth:token-expired'
  nextId,     \* identity of the next handleTokenExpired closure
  logins,     \* bag of the login() calls in flight: the await each one is
              \* suspended at, with its local accessToken
  requests,   \* network requests sent and not yet answered
  lastOp,     \* the operation that produced this state, and the path it took
  page,       \* AccessGroupsPage: which file is mounted, its useState cells,
              \* the ids handed to deleteAccessGroup
  form,       \* LoginForm: its useState cells, the values its last render
              \* captured, the login() calls it awaits
  pager,      \* the list the API serves to getOperations / getPermissions
  modules     \* ModuleService: isActive on the server and the
              \* toggleModuleStatus() calls in flight

\* the state of the session authority
Store == <<session, storage, listeners, nextId, logins, requests>>

\* the state of the components and services around it
Components == <<page, form, pager, modules>>

vars == <<session, storage, listeners, nextId, logins, requests, lastOp, page, form, pager, modules>>

\* !!v of JavaScript for a token
Truthy(t) == t /= NoToken /\ t /= ""

(* ---------------- auth-storage utilities ---------------- *)
EmptyStorage == [token |-> NoToken, refresh |-> NoToken, user |-> NoUser, expired |-> FALSE]

clearAuth(st) == EmptyStorage

\* a token just issued by the backend has not expired yet
setToken(st, t) == [st EXCEPT !.token = t, !.expired = FALSE]

setRefreshToken(st, r) == [st EXCEPT !.refresh = r]

setStoredUser(st, u) == [st EXCEPT !.user = u]

getToken(st) == st.token

getStoredUser(st) == st.user

\* reading the user entry throws when it cannot be parsed
StorageThrows(st) == st.user = Corrupt

isTokenValid(st) == st.token /= NoToken /\ ~st.expired

(* ---------------- the store ---------------- *)
InitialSession == [isAuthenticated |-> FALSE, user |-> NoUser, token |-> NoToken, isLoading |-> FALSE]

\* the state that logout() and initialize() touch, with the number of
\* logout() invocations made during the current step
World == [session |-> session, storage |-> storage, listeners |-> listeners, logouts |-> 0]

\* window.removeEventListener: removes the listener that is this very closure
removeEventListener(ls, h) == ls \ {h}

\* window.addEventListener: a closure is registered once per identity
addEventListener(ls, h) == ls \cup {h}

\* the arrow function `() => {}` created inside logout(): never registered
FreshArrow == 0

\* logout() that forgets isLoading in its set()
logout_keepsLoading(w) ==
  [session |-> [isAuthenticated |-> FALSE, user |-> NoUser, token |-> NoToken,
                isLoading |-> w.session.isLoading],
   storage |-> clearAuth(w.storage),
   listeners |-> removeEventListener(w.listeners, FreshArrow),
   logouts |-> w.logouts + 1]

\* logout() that flips isAuthenticated instead of clearing it
logout_toggles(w) ==
  [session |-> [isAuthenticated |-> ~w.session.isAuthenticated, user |-> NoUser,
                token |-> NoToken, isLoading |-> FALSE],
   storage |-> clearAuth(w.storage),
   listeners |-> removeEventListener(w.listeners, FreshArrow),
   logouts |-> w.logouts + 1]

\* logout() that clears localStorage and forgets the set()
logout_storageOnly(w) ==
  [session |-> w.session,
   storage |-> clearAuth(w.storage),
   listeners |-> removeEventListener(w.listeners, FreshArrow),
   logouts |-> w.logouts + 1]

logout(w) ==
  [session |-> [isAuthenticated |-> FALSE, user |-> NoUser, token |-> NoToken, isLoading |-> FALSE],
   storage |-> clearAuth(w.storage),
   listeners |-> removeEventListener(w.listeners, FreshArrow),
   logouts |-> w.logouts + 1]

\* initialize() without its clearAuth() branch
initializeTry_noDiscard(w, h) ==
  LET storedToken == getToken(w.storage)
      storedUser  == getStoredUser(w.storage)
      tokenValid  == Truthy(storedToken) /\ storedUser /= NoUser /\ isTokenValid(w.storage)
  IN [session |-> [isAuthenticated |-> tokenValid,
                   user  |-> IF tokenValid THEN storedUser ELSE NoUser,
                   token |-> IF tokenValid THEN storedToken ELSE NoToken,
                   isLoading |-> FALSE],
      storage |-> w.storage,
      listeners |-> addEventListener(removeEventListener(w.listeners, h), h),
      logouts |-> w.logouts]

\* initialize() with the two branches of `user: tokenValid ? ... : ...` swapped
initializeTry_swapped(w, h) ==
  LET storedToken == getToken(w.storage)
      storedUser  == getStoredUser(w.storage)
      tokenValid  == Truthy(storedToken) /\ storedUser /= NoUser /\ isTokenValid(w.storage)
      discard == Truthy(storedToken) /\ storedUser /= NoUser /\ ~tokenValid
  IN [session |-> [isAuthenticated |-> tokenValid,
                   user  |-> IF tokenValid THEN NoUser ELSE storedUser,
                   token |-> IF tokenValid THEN storedToken ELSE NoToken,
                   isLoading |-> FALSE],
      storage |-> IF discard THEN clearAuth(w.storage) ELSE w.storage,
      listeners |-> addEventListener(removeEventListener(w.listeners, h), h),
      logouts |-> w.logouts]

\* body of the try block of initialize(); h is the new handleTokenExpired closure
initializeTry(w, h) ==
  LET storedToken == getToken(w.storage)
      storedUser  == getStoredUser(w.storage)
      tokenValid  == Truthy(storedToken) /\ storedUser /= NoUser /\ isTokenValid(w.storage)
      initialState == [isAuthenticated |-> tokenValid,
                       user  |-> IF tokenValid THEN storedUser ELSE NoUser,
                       token |-> IF tokenValid THEN storedToken ELSE NoToken,
                       isLoading |-> FALSE]
      discard == Truthy(storedToken) /\ storedUser /= NoUser /\ ~tokenValid
  IN [session |-> initialState,
      storage |-> IF discard THEN clearAuth(w.storage) ELSE w.storage,
      listeners |-> addEventListener(removeEventListener(w.listeners, h), h),
      logouts |-> w.logouts]

\* initialize() whose catch block only logs
initializeCatch_empty(w) == w

\* body of the catch block of initialize()
initializeCatch(w) ==
  [w EXCEPT !.session = [isAuthenticated |-> FALSE, user |-> NoUser, token |-> NoToken, isLoading |-> FALSE]]

initialize(w, h) ==
  IF StorageThrows(w.storage) THEN initializeCatch(w) ELSE initializeTry(w, h)

\* which path initialize() takes from storage st
InitBranch(st) ==
  IF StorageThrows(st) THEN "error"
  ELSE IF ~(Truthy(st.token) /\ st.user /= NoUser) THEN "none"
  ELSE IF isTokenValid(st) THEN "valid" ELSE "expired"

\* op: the operation; tag: the path it took or the kind of session it met;
\* n: logout() invocations it made;
\* hadRead: canRead("X") answered true just before it
Op(name, tag, n) == [op |-> name, tag |-> tag, n |-> n, hadRead |-> FALSE]

\* a component that is not mounted, a service that is not in use
Unused == [mounted |-> FALSE]

ComponentsUnused ==
  /\ page = Unused
  /\ form = Unused
  /\ pager = Unused
  /\ modules = Unused

(* ---------------- initial state ---------------- *)
\* localStorage survives reloads: it may hold anything a previous run left
StoredUsers == {NoUser, Corrupt} \cup UserInfos

Init ==
  /\ session = InitialSession
  /\ \E t \in {NoToken} \cup Tokens, u \in StoredUsers, e \in BOOLEAN :
        /\ (t = NoToken => ~e)
        /\ storage = [token |-> t, refresh |-> IF t = NoToken THEN NoToken ELSE "r", user |-> u, expired |-> e]
  /\ listeners = {}
  /\ nextId = 1
  /\ logins = EmptyBag
  /\ requests = EmptyBag
  /\ lastOp = Op("create", "", 0)
  /\ ComponentsUnused

(* ---------------- permission queries ---------------- *)
\* usePermissions().hasAccess: derived from the grants of the current user
hasAccess(s, moduleKey, operation) ==
  IF ~s.isAuthenticated \/ s.user = NoUser THEN FALSE
  ELSE \E i \in DOMAIN s.user.permissions :
          /\ s.user.permissions[i][1] = moduleKey
          /\ (operation = NoOperation \/ s.user.permissions[i][2] = operation)

canCreate(s, moduleKey) == hasAccess(s, moduleKey, "CREATE")
canRead(s, moduleKey) == hasAccess(s, moduleKey, "READ")
canUpdate(s, moduleKey) == hasAccess(s, moduleKey, "UPDATE")
canDelete(s, moduleKey) == hasAccess(s, moduleKey, "DELETE")

getAccessibleModules(s) == {m \in ModuleKeys : hasAccess(s, m, NoOperation)}

\* useAuth(): the wrappers around usePermissions()
\* hasModuleAccess that grants when the operation is left out
hasModuleAccess_defaultTrue(s, moduleKey, operation) ==
  IF operation = NoOperation THEN TRUE ELSE hasAccess(s, moduleKey, operation)

\* hasModuleAccess that drops its operation argument
hasModuleAccess_ignoresOperation(s, moduleKey, operation) == hasAccess(s, moduleKey, NoOperation)

hasModuleAccess(s, moduleKey, operation) == hasAccess(s, moduleKey, operation)

canPerformOperation(s, moduleKey, operation) == hasAccess(s, moduleKey, operation)

useAuthCanRead(s, moduleKey) == canRead(s, moduleKey)

useAuthCanCreate(s, moduleKey) == canCreate(s, moduleKey)

useAuthCanUpdate(s, moduleKey) == canUpdate(s, moduleKey)

useAuthCanDelete(s, moduleKey) == canDelete(s, moduleKey)

\* useAuth() hands getAccessibleModules of usePermissions() on as it is
\* getAccessibleModules that lists every module of the application
useAuthGetAccessibleModules_all(s) == ModuleKeys

useAuthGetAccessibleModules(s) == getAccessibleModules(s)

\* Array.prototype.includes
Includes(seq, x) == \E i \in DOMAIN seq : seq[i] = x

\* the deprecated queries of useAuth(): they warn and return false
hasPermission(s, permission) == FALSE

hasRole(s, role) == FALSE

hasAnyPermission(s, permissions) == FALSE

hasAllPermissions(s, permissions) == FALSE

\* the same four queries in the second definition of useAuth():
\* user?.permissions?.includes(permission) || false, and so on
hasPermission2(s, permission) ==
  IF s.user = NoUser THEN FALSE ELSE Includes(s.user.permissions, permission)

hasRole2(s, role) ==
  IF s.user = NoUser THEN FALSE ELSE Includes(s.user.roles, role)

hasAnyPermission2(s, permissions) ==
  \E i \in DOMAIN permissions : hasPermission2(s, permissions[i])

hasAllPermissions2(s, permissions) ==
  \A i \in DOMAIN permissions : hasPermission2(s, permissions[i])

(* ---------------- actions ---------------- *)
Commit(w) ==
  /\ session' = w.session
  /\ storage' = w.storage
  /\ listeners' = w.listeners

\* initialize(): no await inside, so it runs to completion in one step
Initialize ==
  /\ nextId <= MaxInit
  /\ Commit(initialize(World, nextId))
  /\ nextId' = nextId + 1
  /\ lastOp' = Op("initialize", InitBranch(storage), 0)
  /\ UNCHANGED <<logins, requests, Components>>

\* how the session looked when logout() was called
Kind(s) ==
  IF s.isAuthenticated /\ s.user /= NoUser /\ s.token /= NoToken THEN "authenticated"
  ELSE IF ~s.isAuthenticated /\ s.user = NoUser /\ s.token = NoToken THEN "anonymous"
  ELSE "mixed"

Logout ==
  /\ Commit(logout(World))
  /\ lastOp' = [Op("logout", Kind(session), logout(World).logouts) EXCEPT !.hadRead = canRead(session, "X")]
  /\ UNCHANGED <<nextId, logins, requests, Components>>

\* handleTokenExpired: the closure registered by initialize()
handleTokenExpired(w) == logout(w)

\* window.dispatchEvent calls every registered listener, one after the other
RECURSIVE dispatchEvent(_, _)
dispatchEvent(w, hs) ==
  IF hs = {} THEN w
  ELSE LET h == CHOOSE x \in hs : TRUE
       IN dispatchEvent(handleTokenExpired(w), hs \ {h})

\* the transport layer raises 'auth:token-expired'
ExpirySignal ==
  LET w == dispatchEvent(World, listeners)
  IN /\ Commit(w)
     /\ lastOp' = [Op("expiry", Kind(session), w.logouts) EXCEPT !.hadRead = canRead(session, "X")]
     /\ UNCHANGED <<nextId, logins, requests, Components>>

\* time passes and the stored token's expiry instant is reached
TokenExpires ==
  /\ storage.token /= NoToken
  /\ ~storage.expired
  /\ storage' = [storage EXCEPT !.expired = TRUE]
  /\ lastOp' = Op("clock", "", 0)
  /\ UNCHANGED <<session, listeners, nextId, logins, requests, Components>>

\* AuthUser built from the profile, field by field
AuthUser(userData) ==
  [id |-> userData.id, email |-> userData.email, username |-> userData.username,
   fullName |-> userData.fullName, tenant |-> userData.tenant,
   permissions |-> userData.permissions, roles |-> userData.roles,
   accessGroups |-> userData.accessGroups]

\* a login() call suspended at `await httpClient.post(LOGIN)`
AtPost == [pc |-> "post", accessToken |-> NoToken]

\* a login() call suspended at `await httpClient.get(ME)`, holding accessToken
AtMe(accessToken) == [pc |-> "me", accessToken |-> accessToken]

One(x) == SetToBag({x})

\* login() up to the first await: set({isLoading: true}) and the POST is sent
LoginStart ==
  /\ BagCardinality(logins) < MaxLogins
  /\ session' = [session EXCEPT !.isLoading = TRUE]
  /\ logins' = logins (+) One(AtPost)
  /\ requests' = requests (+) One("LOGIN")
  /\ lastOp' = Op("loginStart", "", 0)
  /\ UNCHANGED <<storage, listeners, nextId, Components>>

\* outer catch of login(): set({isLoading: false}); clearAuth(); throw
loginCatch(w) ==
  [w EXCEPT !.session = [w.session EXCEPT !.isLoading = FALSE],
            !.storage = clearAuth(w.storage)]

\* inner catch of login(): clearAuth(); throw, which the outer catch receives
loginUserInfoCatch(w) == loginCatch([w EXCEPT !.storage = clearAuth(w.storage)])

\* login() that sends GET /me without saving the tokens first
loginSaveTokens_skips(st, accessToken, refreshToken) == st

\* setToken(accessToken); setRefreshToken(refreshToken)
loginSaveTokens(st, accessToken, refreshToken) ==
  setRefreshToken(setToken(st, accessToken), refreshToken)

\* the POST resolved with succeeded && data: tokens saved, GET /me is sent
LoginAccepted ==
  /\ BagIn(AtPost, logins)
  /\ BagIn("LOGIN", requests)
  /\ \E accessToken \in Tokens :
        /\ storage' = loginSaveTokens(storage, accessToken, "r")
        /\ logins' = (logins (-) One(AtPost)) (+) One(AtMe(accessToken))
  /\ requests' = (requests (-) One("LOGIN")) (+) One("ME")
  /\ lastOp' = Op("loginAccepted", "", 0)
  /\ UNCHANGED <<session, listeners, nextId, Components>>

\* the POST rejected, or resolved without succeeded/data
LoginRejected ==
  /\ BagIn(AtPost, logins)
  /\ BagIn("LOGIN", requests)
  /\ Commit(loginCatch(World))
  /\ logins' = logins (-) One(AtPost)
  /\ requests' = requests (-) One("LOGIN")
  /\ lastOp' = Op("loginFailed", "credentials", 0)
  /\ UNCHANGED <<nextId, Components>>

\* the state written when GET /me resolved with succeeded && data
loginSuccess(w, accessToken, userData) ==
  [w EXCEPT !.storage = setStoredUser(w.storage, userData),
            !.session = [isAuthenticated |-> TRUE, user |-> AuthUser(userData),
                         token |-> accessToken, isLoading |-> FALSE]]

LoginSucceeded ==
  /\ BagIn("ME", requests)
  /\ \E accessToken \in Tokens :
        /\ BagIn(AtMe(accessToken), logins)
        /\ \E userData \in UserInfos : Commit(loginSuccess(World, accessToken, userData))
        /\ logins' = logins (-) One(AtMe(accessToken))
        /\ lastOp' = Op("loginSucceeded", accessToken, 0)
  /\ requests' = requests (-) One("ME")
  /\ UNCHANGED <<nextId, Components>>

\* GET /me rejected, or resolved without succeeded/data
LoginProfileFailed ==
  /\ BagIn("ME", requests)
  /\ \E accessToken \in Tokens :
        /\ BagIn(AtMe(accessToken), logins)
        /\ logins' = logins (-) One(AtMe(accessToken))
  /\ Commit(loginUserInfoCatch(World))
  /\ requests' = requests (-) One("ME")
  /\ lastOp' = Op("loginFailed", "profile", 0)
  /\ UNCHANGED <<nextId, Components>>

SetUser ==
  /\ \E user \in {NoUser} \cup {AuthUser(u) : u \in UserInfos} :
        session' = [session EXCEPT !.user = user]
  /\ lastOp' = Op("setUser", "", 0)
  /\ UNCHANGED <<storage, listeners, nextId, logins, requests, Components>>

SetToken ==
  /\ \E token \in TokenArgs :
        session' = [session EXCEPT !.token = token, !.isAuthenticated = Truthy(token)]
  /\ lastOp' = Op("setToken", "", 0)
  /\ UNCHANGED <<storage, listeners, nextId, logins, requests, Components>>

SetLoading ==
  /\ \E isLoading \in BOOLEAN : session' = [session EXCEPT !.isLoading = isLoading]
  /\ lastOp' = Op("setLoading", "", 0)
  /\ UNCHANGED <<storage, listeners, nextId, logins, requests, Components>>

\* what the try block of refreshToken() can do: it only logs, it cannot fail
RefreshFailures == {FALSE}

\* refreshToken() whose catch block rethrows without logout()
refreshTokenCatch_rethrowOnly(w) == w

\* catch block of refreshToken(): get().logout(); throw error
refreshTokenCatch(w) == logout(w)

refreshToken(w, failed) == IF failed THEN refreshTokenCatch(w) ELSE w

RefreshToken ==
  /\ \E failed \in RefreshFailures :
        /\ Commit(refreshToken(World, failed))
        /\ lastOp' = Op("refreshToken", IF failed THEN "failed" ELSE "", refreshToken(World, failed).logouts)
  /\ UNCHANGED <<nextId, logins, requests, Components>>

Next ==
  \/ Initialize
  \/ Logout
  \/ ExpirySignal
  \/ TokenExpires
  \/ LoginStart
  \/ LoginAccepted
  \/ LoginRejected
  \/ LoginSucceeded
  \/ LoginProfileFailed
  \/ SetUser
  \/ SetToken
  \/ SetLoading
  \/ RefreshToken

Spec == Init /\ [][Next]_vars

(* ---------------- two login() calls racing ---------------- *)
\* a new store on which login() was called twice in the same turn: both calls
\* have set isLoading and are suspended at their POST
RaceInit ==
  /\ session = [InitialSession EXCEPT !.isLoading = TRUE]
  /\ \E t \in {NoToken} \cup Tokens, u \in StoredUsers, e \in BOOLEAN :
        /\ (t = NoToken => ~e)
        /\ storage = [token |-> t, refresh |-> IF t = NoToken THEN NoToken ELSE "r", user |-> u, expired |-> e]
  /\ listeners = {}
  /\ nextId = 1
  /\ logins = One(AtPost) (+) One(AtPost)
  /\ requests = One("LOGIN") (+) One("LOGIN")
  /\ lastOp = Op("loginStart", "", 0)
  /\ ComponentsUnused

\* the responses arrive in any order, while time passes
RaceNext ==
  \/ TokenExpires
  \/ LoginAccepted
  \/ LoginRejected
  \/ LoginSucceeded
  \/ LoginProfileFailed

RaceSpec == RaceInit /\ [][RaceNext]_vars

(* ---------------- the permission queries on their own ---------------- *)
\* grants a profile may carry
Grants == {<<"ACCESS_GROUP", "CREATE">>, <<"X", "READ">>, <<"X", "UPDATE">>}

\* grant lists: any order, duplicates allowed
GrantSeqs == UNION {[1..n -> Grants] : n \in 0..MaxGrants}

Roles == {"admin", "viewer"}

\* the users whose grants are queried
PermUsers ==
  {[AuthUser(u) EXCEPT !.permissions = gs, !.roles = rs] :
      u \in {v \in UserInfos : v.id = "u1"}, gs \in GrantSeqs, rs \in {<<>>, <<"admin">>}}

\* sessions the queries are asked in: nobody logged in, or one of the users
PermSessions ==
  {InitialSession} \cup
  {[isAuthenticated |-> TRUE, user |-> u, token |-> "t1", isLoading |-> FALSE] : u \in PermUsers}

\* argument lists of hasAnyPermission / hasAllPermissions
PermissionLists == {<<>>, << <<"X", "READ">> >>, << <<"X", "READ">>, <<"ACCESS_GROUP", "CREATE">> >>}

\* localStorage as the login() that opened the session left it
PermStorage(s) ==
  IF s.isAuthenticated
  THEN [token |-> s.token, refresh |-> "r", user |-> s.user, expired |-> FALSE]
  ELSE EmptyStorage

PermInit ==
  /\ session \in PermSessions
  /\ storage = PermStorage(session)
  /\ listeners = {}
  /\ nextId = 1
  /\ logins = EmptyBag
  /\ requests = EmptyBag
  /\ lastOp = Op("create", "", 0)
  /\ ComponentsUnused

\* a query and what it answered
Asked(fn, arg, operation, answer) ==
  [op |-> fn, arg |-> arg, operation |-> operation, answer |-> answer]

\* a query that ends the session as a side effect
QueryUnchanged_logsOut ==
  /\ Commit(logout(World))
  /\ UNCHANGED <<nextId, logins, requests, Components>>

QueryUnchanged == UNCHANGED <<session, storage, listeners, nextId, logins, requests, Components>>

QueryHasModuleAccess ==
  /\ \E m \in ModuleKeys, o \in Operations \cup {NoOperation} :
        lastOp' = Asked("hasModuleAccess", m, o, hasModuleAccess(session, m, o))
  /\ QueryUnchanged

QueryCanPerformOperation ==
  /\ \E m \in ModuleKeys, o \in Operations :
        lastOp' = Asked("canPerformOperation", m, o, canPerformOperation(session, m, o))
  /\ QueryUnchanged

QueryCan ==
  /\ \E m \in ModuleKeys :
        \/ lastOp' = Asked("canCreate", m, "CREATE", useAuthCanCreate(session, m))
        \/ lastOp' = Asked("canRead", m, "READ", useAuthCanRead(session, m))
        \/ lastOp' = Asked("canUpdate", m, "UPDATE", useAuthCanUpdate(session, m))
        \/ lastOp' = Asked("canDelete", m, "DELETE", useAuthCanDelete(session, m))
  /\ QueryUnchanged

QueryGetAccessibleModules ==
  /\ lastOp' = [op |-> "getAccessibleModules", modules |-> useAuthGetAccessibleModules(session)]
  /\ QueryUnchanged

\* the deprecated queries, in both definitions of useAuth()
QueryLegacy ==
  /\ \/ \E g \in Grants :
          \/ lastOp' = Asked("hasPermission", g, 1, hasPermission(session, g))
          \/ lastOp' = Asked("hasPermission", g, 2, hasPermission2(session, g))
     \/ \E r \in Roles :
          \/ lastOp' = Asked("hasRole", r, 1, hasRole(session, r))
          \/ lastOp' = Asked("hasRole", r, 2, hasRole2(session, r))
     \/ \E ps \in PermissionLists :
          \/ lastOp' = Asked("hasAnyPermission", ps, 1, hasAnyPermission(session, ps))
          \/ lastOp' = Asked("hasAnyPermission", ps, 2, hasAnyPermission2(session, ps))
          \/ lastOp' = Asked("hasAllPermissions", ps, 1, hasAllPermissions(session, ps))
          \/ lastOp' = Asked("hasAllPermissions", ps, 2, hasAllPermissions2(session, ps))
  /\ QueryUnchanged

PermNext ==
  \/ QueryHasModuleAccess
  \/ QueryCanPerformOperation
  \/ QueryCan
  \/ QueryGetAccessibleModules
  \/ QueryLegacy

PermSpec == PermInit /\ [][PermNext]_vars

(* ---------------- AccessGroupsPage ---------------- *)
\* the two files that define AccessGroupsPage: the one with the permission
\* checks and the one that features/access-groups exports
PageFiles == {"part_004", "AccessGroupsPage.tsx"}

\* ids of the access groups in the list
AccessGroups == {"g1", "g2"}

\* useState<AccessGroup | null>(null)
NoGroup == "null"

\* a grant list on ACCESS_GROUP for a set of operations
GrantList(ops) ==
  LET held == SelectSeq(<<"SELECT", "CREATE", "UPDATE", "DELETE">>, LAMBDA o : o \in ops)
  IN [i \in DOMAIN held |-> <<"ACCESS_GROUP", held[i]>>]

\* sessions the page is opened in: nobody logged in, or a user with any
\* subset of the four operations on ACCESS_GROUP
PageSessions ==
  {InitialSession} \cup
  {[isAuthenticated |-> TRUE,
    user |-> [AuthUser(u) EXCEPT !.permissions = GrantList(ops)],
    token |-> "t1", isLoading |-> FALSE] :
      u \in {v \in UserInfos : v.id = "u1"},
      ops \in SUBSET {"SELECT", "CREATE", "UPDATE", "DELETE"}}

\* what the component returns: the "Acesso Negado" box or the page
PageRender(file, s) ==
  IF file = "part_004" /\ ~hasAccess(s, "ACCESS_GROUP", "SELECT") THEN "denied" ELSE "content"

\* actionButton of PageHeader: whether "Criar Grupo" is there to click
CreateButton(file, s) ==
  IF file = "part_004" THEN canCreate(s, "ACCESS_GROUP") ELSE TRUE

\* the handlers of part_004
handleCreateAccessGroup(pg, s) ==
  IF ~canCreate(s, "ACCESS_GROUP") THEN pg
  ELSE [pg EXCEPT !.editingAccessGroup = NoGroup, !.dialogOpen = TRUE]

handleEditAccessGroup(pg, s, accessGroup) ==
  IF ~canUpdate(s, "ACCESS_GROUP") THEN pg
  ELSE [pg EXCEPT !.editingAccessGroup = accessGroup, !.dialogOpen = TRUE]

\* confirmed: the answer of window.confirm
handleDeleteAccessGroup(pg, s, accessGroup, confirmed) ==
  IF ~canDelete(s, "ACCESS_GROUP") THEN pg
  ELSE IF confirmed THEN [pg EXCEPT !.deleted = @ \cup {accessGroup}]
  ELSE pg

\* the handlers of AccessGroupsPage.tsx
handleCreateAccessGroup2(pg) ==
  [pg EXCEPT !.editingAccessGroup = NoGroup, !.dialogOpen = TRUE]

handleEditAccessGroup2(pg, accessGroup) ==
  [pg EXCEPT !.editingAccessGroup = accessGroup, !.dialogOpen = TRUE]

handleDeleteAccessGroup2(pg, accessGroup, confirmed) ==
  IF confirmed THEN [pg EXCEPT !.deleted = @ \cup {accessGroup}] ELSE pg

handleDialogClose(pg) ==
  [pg EXCEPT !.dialogOpen = FALSE, !.editingAccessGroup = NoGroup]

\* a handler of the page, its argument and the answer of window.confirm
Handled(name, accessGroup, confirmed) ==
  [op |-> name, arg |-> accessGroup, confirmed |-> confirmed]

PageInit ==
  /\ session \in PageSessions
  /\ storage = PermStorage(session)
  /\ listeners = {}
  /\ nextId = 1
  /\ logins = EmptyBag
  /\ requests = EmptyBag
  /\ lastOp = Op("create", "", 0)
  /\ \E file \in PageFiles :
        page = [mounted |-> TRUE, file |-> file, dialogOpen |-> FALSE,
                editingAccessGroup |-> NoGroup, deleted |-> {}]
  /\ form = Unused
  /\ pager = Unused
  /\ modules = Unused

\* the buttons can be clicked when the page is shown and no dialog covers it
PageShown == PageRender(page.file, session) = "content" /\ ~page.dialogOpen

PageUnchanged == UNCHANGED <<Store, form, pager, modules>>

ClickCreate ==
  /\ PageShown
  /\ CreateButton(page.file, session)
  /\ page' = IF page.file = "part_004" THEN handleCreateAccessGroup(page, session)
             ELSE handleCreateAccessGroup2(page)
  /\ lastOp' = Handled("handleCreateAccessGroup", NoGroup, FALSE)
  /\ PageUnchanged

ClickEdit ==
  /\ PageShown
  /\ \E accessGroup \in AccessGroups \ page.deleted :
        /\ page' = IF page.file = "part_004" THEN handleEditAccessGroup(page, session, accessGroup)
                   ELSE handleEditAccessGroup2(page, accessGroup)
        /\ lastOp' = Handled("handleEditAccessGroup", accessGroup, FALSE)
  /\ PageUnchanged

ClickDelete ==
  /\ PageShown
  /\ \E accessGroup \in AccessGroups \ page.deleted, confirmed \in BOOLEAN :
        /\ page' = IF page.file = "part_004"
                   THEN handleDeleteAccessGroup(page, session, accessGroup, confirmed)
                   ELSE handleDeleteAccessGroup2(page, accessGroup, confirmed)
        /\ lastOp' = Handled("handleDeleteAccessGroup", accessGroup, confirmed)
  /\ PageUnchanged

DialogClose ==
  /\ page.dialogOpen
  /\ page' = handleDialogClose(page)
  /\ lastOp' = Handled("handleDialogClose", NoGroup, FALSE)
  /\ PageUnchanged

PageNext ==
  \/ ClickCreate
  \/ ClickEdit
  \/ ClickDelete
  \/ DialogClose

PageSpec == PageInit /\ [][PageNext]_vars

(* ---------------- LoginForm ---------------- *)
\* number of login() calls the form makes in one run
MaxSubmits == 3

\* useState<string | null>(null)
NoError == "null"

\* what a render reads from the useState cells: the values that onSubmit,
\* togglePasswordVisibility and the button of that render work with
Captured(f) == [isSubmitting |-> f.isSubmitting, showPassword |-> f.showPassword]

\* <Button type="submit" disabled={isSubmitting}>
SubmitDisabled(f) == f.rendered.isSubmitting

\* onSubmit up to `await login(loginRequest)`; isSubmitting is the constant
\* of the render the handler belongs to
onSubmit(f) ==
  IF f.rendered.isSubmitting THEN f
  ELSE [f EXCEPT !.isSubmitting = TRUE, !.error = NoError,
                 !.inFlight = @ + 1, !.calls = @ + 1]

\* login() resolved: onSuccess?.(), then the finally block
onSubmitResolved(f) ==
  [f EXCEPT !.inFlight = @ - 1, !.isSubmitting = FALSE]

\* login() rejected: the catch block, then the finally block
onSubmitRejected(f) ==
  [f EXCEPT !.inFlight = @ - 1, !.error = "message", !.isSubmitting = FALSE]

togglePasswordVisibility(f) == [f EXCEPT !.showPassword = ~f.rendered.showPassword]

\* what the form did, and how many login() calls it was awaiting before
Did(name, tag, f) == [op |-> name, tag |-> tag, awaiting |-> f.inFlight]

FormInit ==
  /\ session = InitialSession
  /\ storage = EmptyStorage
  /\ listeners = {}
  /\ nextId = 1
  /\ logins = EmptyBag
  /\ requests = EmptyBag
  /\ lastOp = Op("create", "", 0)
  /\ page = Unused
  /\ form = [mounted |-> TRUE, isSubmitting |-> FALSE, error |-> NoError,
             showPassword |-> FALSE,
             rendered |-> [isSubmitting |-> FALSE, showPassword |-> FALSE],
             inFlight |-> 0, calls |-> 0]
  /\ pager = Unused
  /\ modules = Unused

FormUnchanged == UNCHANGED <<Store, page, pager, modules>>

\* a submit event whose validation passed: a click on the button, which must
\* be enabled, or the Enter key or requestSubmit()
FormSubmit ==
  /\ form.calls < MaxSubmits
  /\ \E viaButton \in BOOLEAN :
        /\ viaButton => ~SubmitDisabled(form)
        /\ form' = onSubmit(form)
        /\ lastOp' = Did("onSubmit", IF form' = form THEN "ignored" ELSE "login", form)
  /\ FormUnchanged

\* React renders the component again after a useState cell changed
FormRender ==
  /\ form.rendered /= Captured(form)
  /\ form' = [form EXCEPT !.rendered = Captured(form)]
  /\ lastOp' = Did("render", "", form)
  /\ FormUnchanged

FormLoginResolved ==
  /\ form.inFlight > 0
  /\ form' = onSubmitResolved(form)
  /\ lastOp' = Did("loginResolved", "", form)
  /\ FormUnchanged

FormLoginRejected ==
  /\ form.inFlight > 0
  /\ form' = onSubmitRejected(form)
  /\ lastOp' = Did("loginRejected", "", form)
  /\ FormUnchanged

FormTogglePassword ==
  /\ form' = togglePasswordVisibility(form)
  /\ lastOp' = Did("togglePasswordVisibility", "", form)
  /\ FormUnchanged

FormNext ==
  \/ FormSubmit
  \/ FormRender
  \/ FormLoginResolved
  \/ FormLoginRejected
  \/ FormTogglePassword

FormSpec == FormInit /\ [][FormNext]_vars

(* ---------------- client-side pagination ---------------- *)
\* length of the longest list the API returns
MaxList == 12
\* largest page number asked for
MaxPage == 4
\* largest limit asked for
MaxLimit == 4

\* an optional number of QueryParams: <<>> when left out, <<n>> when given
OptionalNumbers(max) == {<<>>} \cup {<<n>> : n \in 0..max}

QueryParams == [page : OptionalNumbers(MaxPage), limit : OptionalNumbers(MaxLimit)]

\* params?.x || d : undefined and 0 are falsy
OrDefault(x, d) == IF x = <<>> THEN d ELSE IF x[1] = 0 THEN d ELSE x[1]

\* Array.prototype.slice(start, end) for 0 <= start <= end
slice(items, start, end) ==
  LET last == IF end < Len(items) THEN end ELSE Len(items)
  IN IF start >= last THEN <<>> ELSE [i \in 1..(last - start) |-> items[start + i]]

\* Math.ceil(a / b) for a >= 0, b >= 1
CeilDiv(a, b) == (a + b - 1) \div b

\* pagination that takes currentPage as a zero-based page index
Paginate_zeroBased(items, params) ==
  LET pageSize == OrDefault(params.limit, 10)
      currentPage == OrDefault(params.page, 1)
      startIndex == currentPage * pageSize
      endIndex == startIndex + pageSize
      totalCount == Len(items)
      totalPages == CeilDiv(totalCount, pageSize)
  IN [kind |-> "page",
      data |-> slice(items, startIndex, endIndex),
      totalCount |-> totalCount,
      pageNumber |-> currentPage,
      pageSize |-> pageSize,
      totalPages |-> totalPages,
      hasPreviousPage |-> currentPage > 1,
      hasNextPage |-> currentPage < totalPages]

\* "Simula paginação no frontend": the same lines in both services
Paginate(items, params) ==
  LET pageSize == OrDefault(params.limit, 10)
      currentPage == OrDefault(params.page, 1)
      startIndex == (currentPage - 1) * pageSize
      endIndex == startIndex + pageSize
      totalCount == Len(items)
      totalPages == CeilDiv(totalCount, pageSize)
  IN [kind |-> "page",
      data |-> slice(items, startIndex, endIndex),
      totalCount |-> totalCount,
      pageNumber |-> currentPage,
      pageSize |-> pageSize,
      totalPages |-> totalPages,
      hasPreviousPage |-> currentPage > 1,
      hasNextPage |-> currentPage < totalPages]

\* throw new Error(...)
Thrown == [kind |-> "error"]

\* response.data: the array itself, or a ResponseDTO whose data is the array,
\* is missing, or is an object that is no array
ResponseShapes == {"array", "succeeded", "failed", "noData", "noArray"}

getOperations(shape, items, params) ==
  IF shape = "array" THEN Paginate(items, params)
  ELSE IF shape = "failed" THEN Thrown
  ELSE IF shape = "noData" THEN Thrown
  ELSE IF shape = "noArray" THEN Paginate(<<>>, params)
  ELSE Paginate(items, params)

getPermissions(shape, items, params) ==
  IF shape = "array" THEN Paginate(items, params)
  ELSE IF shape = "failed" THEN Thrown
  ELSE IF shape = "noData" \/ shape = "noArray" THEN Thrown
  ELSE Paginate(items, params)

\* the lists the API serves: items told apart by their position
ApiLists == {[i \in 1..n |-> i] : n \in 0..MaxList}

\* a call of one of the two services, with what the API answered and the
\* parameters of the call
Called(name, shape, params) == [op |-> name, shape |-> shape, params |-> params]

NoResult == [kind |-> "none"]

PagerInit ==
  /\ session = InitialSession
  /\ storage = EmptyStorage
  /\ listeners = {}
  /\ nextId = 1
  /\ logins = EmptyBag
  /\ requests = EmptyBag
  /\ lastOp = Op("create", "", 0)
  /\ page = Unused
  /\ form = Unused
  /\ \E items \in ApiLists : pager = [items |-> items, result |-> NoResult]
  /\ modules = Unused

PagerUnchanged == UNCHANGED <<Store, page, form, modules>>

GetOperations ==
  /\ pager.result = NoResult
  /\ \E shape \in ResponseShapes, params \in QueryParams :
        /\ pager' = [pager EXCEPT !.result = getOperations(shape, pager.items, params)]
        /\ lastOp' = Called("getOperations", shape, params)
  /\ PagerUnchanged

GetPermissions ==
  /\ pager.result = NoResult
  /\ \E shape \in ResponseShapes, params \in QueryParams :
        /\ pager' = [pager EXCEPT !.result = getPermissions(shape, pager.items, params)]
        /\ lastOp' = Called("getPermissions", shape, params)
  /\ PagerUnchanged

PagerNext ==
  \/ GetOperations
  \/ GetPermissions

PagerSpec == PagerInit /\ [][PagerNext]_vars

(* ---------------- ModuleService.toggleModuleStatus ---------------- *)
\* number of toggleModuleStatus() calls on the module in one run
MaxToggles == 3

\* a call suspended at `await this.getModuleById(id)`
AtGet == [pc |-> "get", isActive |-> FALSE]

\* a call suspended at `await this.updateModule(id, {isActive})`
AtPut(isActive) == [pc |-> "put", isActive |-> isActive]

\* { isActive: !module.isActive }
toggled(module) == [isActive |-> ~module.isActive]

\* what the service did
Toggled(name) == [op |-> name]

ToggleInit ==
  /\ session = InitialSession
  /\ storage = EmptyStorage
  /\ listeners = {}
  /\ nextId = 1
  /\ logins = EmptyBag
  /\ requests = EmptyBag
  /\ lastOp = Op("create", "", 0)
  /\ page = Unused
  /\ form = Unused
  /\ pager = Unused
  /\ \E isActive \in BOOLEAN :
        modules = [isActive |-> isActive, original |-> isActive,
                   calls |-> EmptyBag, started |-> 0, completed |-> 0]

ToggleUnchanged == UNCHANGED <<Store, page, form, pager>>

\* toggleModuleStatus(id) up to its first await: the GET is sent
ToggleStart ==
  /\ modules.started < MaxToggles
  /\ modules' = [modules EXCEPT !.calls = @ (+) One(AtGet), !.started = @ + 1]
  /\ lastOp' = Toggled("toggleModuleStatus")
  /\ ToggleUnchanged

\* the GET resolved with the module as the server holds it: the PUT is sent
GetModuleByIdResolved ==
  /\ BagIn(AtGet, modules.calls)
  /\ modules' = [modules EXCEPT
                   !.calls = (@ (-) One(AtGet)) (+) One(AtPut(toggled(modules).isActive))]
  /\ lastOp' = Toggled("getModuleById")
  /\ ToggleUnchanged

\* the server applied the PUT and the call returned the updated module
UpdateModuleResolved ==
  /\ \E isActive \in BOOLEAN :
        /\ BagIn(AtPut(isActive), modules.calls)
        /\ modules' = [modules EXCEPT !.calls = @ (-) One(AtPut(isActive)),
                                      !.isActive = isActive,
                                      !.completed = @ + 1]
  /\ lastOp' = Toggled("updateModule")
  /\ ToggleUnchanged

\* a request was rejected: the call throws and the server keeps its value
ToggleRejected ==
  /\ \E call \in BagToSet(modules.calls) :
        modules' = [modules EXCEPT !.calls = @ (-) One(call)]
  /\ lastOp' = Toggled("rejected")
  /\ ToggleUnchanged

ToggleNext ==
  \/ ToggleStart
  \/ GetModuleByIdResolved
  \/ UpdateModuleResolved
  \/ ToggleRejected

ToggleSpec == ToggleInit /\ [][ToggleNext]_vars

(* ---------------- properties ---------------- *)
Anonymous(s) == ~s.isAuthenticated /\ s.user = NoUser /\ s.token = NoToken

Authenticated(s) == s.isAuthenticated /\ s.user /= NoUser /\ s.token /= NoToken

\* the token of the session was found expired by the step that led here
TokenDeterminedExpired ==
  \/ lastOp.op = "expiry"
  \/ lastOp.op = "initialize" /\ lastOp.tag = "expired"

\* C1: in every reachable state isAuthenticated is true exactly when user and
\* token are both present and the token has not been determined expired.
C1_AuthIffUserAndToken ==
  session.isAuthenticated <=>
    (session.user /= NoUser /\ session.token /= NoToken /\ ~TokenDeterminedExpired)

\* C2: when login() has failed at the profile step, the session is Anonymous
\* and localStorage holds no token.
C2_AllOrNothingLogin ==
  (lastOp.op = "loginFailed" /\ lastOp.tag = "profile") =>
    /\ Anonymous(session)
    /\ storage.token = NoToken

\* C3: at most one expiry listener is registered, and one expiry signal
\* invokes logout() at most once.
C3_SingleListener ==
  /\ Cardinality(listeners) <= 1
  /\ (lastOp.op = "expiry" => lastOp.n <= 1)

\* C4: initialize() on a stored token and user whose token has expired ends
\* Anonymous with isLoading false and localStorage cleared.
C4_ExpiryDiscard ==
  [][(/\ lastOp'.op = "initialize"
      /\ Truthy(storage.token)
      /\ storage.user \in UserInfos
      /\ ~isTokenValid(storage))
     => (/\ Anonymous(session')
         /\ ~session'.isLoading
         /\ storage' = EmptyStorage)]_vars

C4_Witness ==
  /\ lastOp.op = "initialize"
  /\ lastOp.tag = "expired"
  /\ Anonymous(session)
  /\ storage = EmptyStorage

\* C5: initialize() on a stored token and user whose token is valid ends
\* Authenticated with exactly the stored user and token, isLoading false, and
\* issues no network request.
C5_ValidRestore ==
  [][(/\ lastOp'.op = "initialize"
      /\ Truthy(storage.token)
      /\ storage.user \in UserInfos
      /\ isTokenValid(storage))
     => (/\ session'.isAuthenticated
         /\ session'.user = storage.user
         /\ session'.token = storage.token
         /\ ~session'.isLoading
         /\ requests' = requests)]_vars

C5_Witness ==
  /\ lastOp.op = "initialize"
  /\ lastOp.tag = "valid"
  /\ session.isAuthenticated
  /\ session.user \in UserInfos
  /\ session.user = storage.user
  /\ session.token = storage.token

\* C6: initialize() always completes with isLoading false in a definite state
\* (Anonymous or Authenticated), and Anonymous when localStorage could not be
\* read or held no token or no user.
C6_InitializeNeverFails ==
  [][lastOp'.op = "initialize"
     => (/\ ~session'.isLoading
         /\ (Anonymous(session') \/ Authenticated(session'))
         /\ ((StorageThrows(storage) \/ storage.token = NoToken \/ storage.user = NoUser)
               => Anonymous(session')))]_vars

C6_Witness ==
  /\ lastOp.op = "initialize"
  /\ lastOp.tag = "error"
  /\ storage.user = Corrupt
  /\ Anonymous(session)
  /\ ~session.isLoading

\* C7: when logout() returns, localStorage is cleared and the session is
\* exactly {isAuthenticated: false, user: null, token: null, isLoading: false}.
C7_LogoutResets ==
  lastOp.op = "logout" =>
    /\ session = [isAuthenticated |-> FALSE, user |-> NoUser, token |-> NoToken, isLoading |-> FALSE]
    /\ storage = EmptyStorage

\* logout() called on an Authenticated session while a login() is in flight
C7_Witness ==
  /\ lastOp.op = "logout"
  /\ lastOp.tag = "authenticated"
  /\ \E t \in Tokens : BagIn(AtMe(t), logins)
  /\ Anonymous(session)

\* C8: logout() on an Anonymous session leaves it Anonymous, and a logout()
\* right after a logout() changes neither the session nor localStorage.
C8_IdempotentLogout ==
  [][/\ (lastOp'.op = "logout" /\ Anonymous(session)) => Anonymous(session')
     /\ (lastOp'.op = "logout" /\ lastOp.op = "logout")
          => (session' = session /\ storage' = storage)]_vars

\* logout() called on an Anonymous session
C8_Witness ==
  /\ lastOp.op = "logout"
  /\ lastOp.tag = "anonymous"
  /\ Anonymous(session)
  /\ storage = EmptyStorage

\* every permission query answers false
NoAccess(s) ==
  /\ \A m \in ModuleKeys : \A o \in Operations \cup {NoOperation} :
        /\ ~hasModuleAccess(s, m, o)
        /\ ~canPerformOperation(s, m, o)
  /\ \A m \in ModuleKeys : ~useAuthCanRead(s, m)

\* the operations that put a user or a token into the session
Populating == {"initialize", "loginSucceeded", "setUser", "setToken"}

\* C9: once logout() has run, by a call or by an expiry signal, every
\* permission query answers false, and keeps answering false until an
\* operation puts a user into the session again.
C9_ImmediateRevocation ==
  [][/\ (lastOp'.op = "logout" \/ (lastOp'.op = "expiry" /\ lastOp'.n >= 1))
          => NoAccess(session')
     /\ (lastOp'.op \notin Populating /\ session' /= session /\ NoAccess(session))
          => NoAccess(session')]_vars

\* logout() has run on a session whose user could read X
C9_Witness ==
  /\ lastOp.op \in {"logout", "expiry"}
  /\ lastOp.n >= 1
  /\ lastOp.hadRead
  /\ ~useAuthCanRead(session, "X")

\* C10: for an Anonymous session every hasAccess query is false, with or
\* without an operation, and getAccessibleModules() is empty.
C10_AnonymousHasNoAccess ==
  Anonymous(session) =>
    /\ \A m \in ModuleKeys : \A o \in Operations \cup {NoOperation} :
          /\ ~hasModuleAccess(session, m, o)
          /\ ~canPerformOperation(session, m, o)
    /\ getAccessibleModules(session) = {}

\* an Anonymous session reached by a login() that failed
C10_Witness ==
  /\ Anonymous(session)
  /\ lastOp.op = "loginFailed"
  /\ getAccessibleModules(session) = {}

\* the grants of the user of the session, as a set
Held(s) == {s.user.permissions[i] : i \in DOMAIN s.user.permissions}

\* the session with the grant list of its user replaced
WithGrants(s, gs) == [s EXCEPT !.user = [s.user EXCEPT !.permissions = gs]]

\* C11: for an authenticated user hasAccess(m) is true exactly when some grant
\* names m, hasAccess(m, op) exactly when some grant is (m, op); a user whose
\* only grant is (ACCESS_GROUP, CREATE) gets true, true and, for OTHER_MODULE,
\* false; a grant list with the same grants in another order or with
\* duplicates gets the same answer.
C11_PermissionDerivation ==
  (lastOp.op \in {"hasModuleAccess", "canPerformOperation"} /\ Authenticated(session)) =>
    /\ lastOp.answer <=>
         \E g \in Held(session) :
            g[1] = lastOp.arg /\ (lastOp.operation = NoOperation \/ g[2] = lastOp.operation)
    /\ Held(session) = {<<"ACCESS_GROUP", "CREATE">>} =>
         /\ hasModuleAccess(session, "ACCESS_GROUP", "CREATE")
         /\ hasModuleAccess(session, "ACCESS_GROUP", NoOperation)
         /\ ~hasModuleAccess(session, "OTHER_MODULE", NoOperation)
    /\ \A gs \in GrantSeqs :
         {gs[i] : i \in DOMAIN gs} = Held(session) =>
           /\ hasModuleAccess(WithGrants(session, gs), lastOp.arg, lastOp.operation) = lastOp.answer
           /\ canPerformOperation(WithGrants(session, gs), lastOp.arg, lastOp.operation) = lastOp.answer

\* hasAccess(ACCESS_GROUP, CREATE) asked by a user who holds that grant twice
C11_Witness ==
  /\ lastOp.op = "hasModuleAccess"
  /\ lastOp.arg = "ACCESS_GROUP"
  /\ lastOp.operation = "CREATE"
  /\ lastOp.answer
  /\ session.user.permissions = << <<"ACCESS_GROUP", "CREATE">>, <<"ACCESS_GROUP", "CREATE">> >>

\* C12: for an authenticated user getAccessibleModules() is the set of module
\* keys that appear in the grants: every key returned has hasAccess(m) true
\* and every m with hasAccess(m) true is returned.
C12_AccessibleModules ==
  (lastOp.op = "getAccessibleModules" /\ Authenticated(session)) =>
    /\ lastOp.modules = {g[1] : g \in Held(session)}
    /\ \A m \in ModuleKeys : m \in lastOp.modules <=> hasModuleAccess(session, m, NoOperation)

\* getAccessibleModules() asked by a user with grants on two modules
C12_Witness ==
  /\ lastOp.op = "getAccessibleModules"
  /\ Authenticated(session)
  /\ lastOp.modules = {"ACCESS_GROUP", "X"}

\* C13: hasPermission, hasRole, hasAnyPermission and hasAllPermissions answer
\* false for every argument in every session.
C13_LegacyAlwaysFalse ==
  lastOp.op \in {"hasPermission", "hasRole", "hasAnyPermission", "hasAllPermissions"}
    => ~lastOp.answer

\* C14: whenever login() has failed, in whatever session it was called, the
\* session is Anonymous with isLoading false and localStorage is cleared.
C14_LoginRollback ==
  lastOp.op = "loginFailed" =>
    /\ Anonymous(session)
    /\ ~session.isLoading
    /\ storage = EmptyStorage

\* C15: when login() has succeeded the session is Authenticated with the
\* access token just received and the user built from the profile just
\* fetched, isLoading is false, and localStorage holds that token and user.
C15_SuccessfulLogin ==
  lastOp.op = "loginSucceeded" =>
    /\ Authenticated(session)
    /\ session.token = lastOp.tag
    /\ ~session.isLoading
    /\ storage.token = session.token
    /\ \E userData \in UserInfos :
          session.user = AuthUser(userData) /\ storage.user = userData

\* C16: a profile request is sent only in the step in which a token request
\* was answered with acceptance, the access token of that call is in
\* localStorage when it is sent, and a rejected token request sends none.
C16_LoginOrdering ==
  [][/\ CopiesIn("ME", requests') > CopiesIn("ME", requests)
          => (/\ lastOp'.op = "loginAccepted"
              /\ CopiesIn("LOGIN", requests') < CopiesIn("LOGIN", requests)
              /\ storage'.token \in Tokens
              /\ CopiesIn(AtMe(storage'.token), logins') > CopiesIn(AtMe(storage'.token), logins))
     /\ (lastOp'.op = "loginFailed" /\ lastOp'.tag = "credentials")
          => CopiesIn("ME", requests') = CopiesIn("ME", requests)]_vars

\* a profile request is pending and localStorage holds the token of its call
C16_Witness ==
  /\ lastOp.op = "loginAccepted"
  /\ BagIn("ME", requests)
  /\ storage.token \in Tokens
  /\ BagIn(AtMe(storage.token), logins)

\* C17: isLoading is true only while a login() call is in flight, and every
\* login() that completes leaves isLoading false.
C17_LoadingOnlyInFlight ==
  /\ session.isLoading => logins /= EmptyBag
  /\ lastOp.op \in {"loginSucceeded", "loginFailed"} => ~session.isLoading

\* C18: once two overlapping login() calls have both completed, the session
\* is Anonymous with no token in localStorage, or Authenticated with the
\* user and token of one call and that token and user in localStorage.
C18_RacingLogins ==
  logins = EmptyBag =>
    \/ Anonymous(session) /\ storage.token = NoToken
    \/ /\ Authenticated(session)
       /\ storage.token = session.token
       /\ \E userData \in UserInfos :
             session.user = AuthUser(userData) /\ storage.user = userData

\* C19: once initialize() has completed, a token-expired signal makes
\* logout() run: the session is Anonymous and localStorage is cleared.
C19_ExpiryEndsSession ==
  (lastOp.op = "expiry" /\ nextId > 1) =>
    /\ lastOp.n >= 1
    /\ Anonymous(session)
    /\ storage = EmptyStorage

\* C20: the catch block of refreshToken(), run in any state, executes
\* logout() once and leaves the session Anonymous with localStorage cleared;
\* a refreshToken() call that does not fail changes neither.
C20_RefreshToken ==
  [][/\ LET w == refreshTokenCatch(World)
        IN w.logouts = 1 /\ w.session = InitialSession /\ w.storage = EmptyStorage
     /\ lastOp'.op = "refreshToken" =>
          /\ lastOp'.tag = "failed" =>
               (lastOp'.n >= 1 /\ Anonymous(session') /\ storage' = EmptyStorage)
          /\ lastOp'.tag /= "failed" =>
               (session' = session /\ storage' = storage)]_vars

\* refreshToken() called on an Authenticated session
C20_Witness ==
  /\ lastOp.op = "refreshToken"
  /\ lastOp.tag = ""
  /\ Authenticated(session)
  /\ storage.token = session.token

\* C21: the session starts with isAuthenticated and isLoading false;
\* isAuthenticated goes from false to true only by an initialize() that
\* restored a valid stored token and user or by a login() whose two steps
\* succeeded, and from true to false only by logout() or an expiry signal.
C21_SessionLifecycle ==
  [][/\ (lastOp.op = "create" => (~session.isAuthenticated /\ ~session.isLoading))
     /\ (~session.isAuthenticated /\ session'.isAuthenticated)
          => \/ lastOp'.op = "initialize" /\ lastOp'.tag = "valid"
             \/ lastOp'.op = "loginSucceeded"
     /\ (session.isAuthenticated /\ ~session'.isAuthenticated)
          => \/ lastOp'.op = "logout"
             \/ lastOp'.op \in {"expiry", "refreshToken"} /\ lastOp'.n >= 1]_vars

\* the names of the permission queries
Queries ==
  {"hasModuleAccess", "canPerformOperation", "canCreate", "canRead", "canUpdate",
   "canDelete", "getAccessibleModules", "hasPermission", "hasRole",
   "hasAnyPermission", "hasAllPermissions"}

\* C22: a permission query, legacy ones included, leaves the session,
\* localStorage and the expiry listeners as they were: it runs no logout().
C22_QueriesReadOnly ==
  [][lastOp'.op \in Queries
     => (/\ session' = session
         /\ storage' = storage
         /\ listeners' = listeners
         /\ logins' = logins
         /\ requests' = requests)]_vars

\* canDelete asked in an Authenticated session whose token is in localStorage
C22_Witness ==
  /\ lastOp.op = "canDelete"
  /\ Authenticated(session)
  /\ storage.token = session.token
  /\ storage.user = session.user

\* C23: after logout() no expiry listener is registered, and an expiry signal
\* raised right after logout() invokes logout() zero times.
C23_LogoutRemovesListener ==
  [][/\ lastOp'.op = "logout" => listeners' = {}
     /\ (lastOp.op = "logout" /\ lastOp'.op = "expiry") => lastOp'.n = 0]_vars

\* C24: a login() call that completes right after logout() or an
\* expiry-triggered logout() was in flight when that logout ran, and does not
\* make the session Authenticated again.
C24_LogoutNotUndone ==
  [][(/\ lastOp'.op = "loginSucceeded"
      /\ (lastOp.op = "logout" \/ (lastOp.op = "expiry" /\ lastOp.n >= 1)))
     => ~session'.isAuthenticated]_vars

\* C25: when the session is Authenticated and no login() is in flight,
\* localStorage holds the token and the user of the session.
C25_SessionStorageAgree ==
  (Authenticated(session) /\ logins = EmptyBag) =>
    /\ storage.token = session.token
    /\ storage.user = session.user

\* C26: when initialize() has completed with the session Anonymous,
\* localStorage holds no access token, whatever it held before.
C26_AnonymousInitNoToken ==
  (lastOp.op = "initialize" /\ Anonymous(session)) => storage.token = NoToken

\* C27: the page content is rendered only with hasAccess(ACCESS_GROUP, SELECT);
\* the create dialog opens only with canCreate, the edit dialog only with
\* canUpdate, deleteAccessGroup is called only with canDelete and a confirmed
\* question; a handler whose check fails changes neither dialog nor data.
C27_PageProtected ==
  [][/\ PageRender(page.file, session) = "content"
          => hasAccess(session, "ACCESS_GROUP", "SELECT")
     /\ (lastOp'.op = "handleCreateAccessGroup" /\ page'.dialogOpen)
          => canCreate(session, "ACCESS_GROUP")
     /\ (lastOp'.op = "handleEditAccessGroup" /\ page'.dialogOpen)
          => canUpdate(session, "ACCESS_GROUP")
     /\ page'.deleted /= page.deleted
          => (/\ lastOp'.op = "handleDeleteAccessGroup"
              /\ lastOp'.confirmed
              /\ canDelete(session, "ACCESS_GROUP"))
     /\ (\/ lastOp'.op = "handleCreateAccessGroup" /\ ~canCreate(session, "ACCESS_GROUP")
         \/ lastOp'.op = "handleEditAccessGroup" /\ ~canUpdate(session, "ACCESS_GROUP")
         \/ lastOp'.op = "handleDeleteAccessGroup" /\ ~canDelete(session, "ACCESS_GROUP"))
          => page' = page]_vars

\* C28: LoginForm calls login() only when no login() call it made earlier is
\* still in flight, and isSubmitting is false once a call has completed,
\* by success or by failure.
C28_NoDoubleSubmit ==
  [][/\ form'.calls > form.calls => form.inFlight = 0
     /\ lastOp'.op \in {"loginResolved", "loginRejected"} => ~form'.isSubmitting]_vars

\* the pages first..last of a list, one after the other
RECURSIVE PagesFrom(_, _, _, _)
PagesFrom(items, first, last, n) ==
  IF first > last THEN <<>>
  ELSE Paginate(items, [page |-> <<first>>, limit |-> <<n>>]).data
         \o PagesFrom(items, first + 1, last, n)

C30_ToggleAlternates ==
  [][/\ lastOp'.op = "updateModule" => modules'.isActive = ~modules.isActive
     /\ modules'.isActive =
          (IF modules'.completed % 2 = 0 THEN modules'.original ELSE ~modules'.original)]_vars

====
